---- MODULE Spec2Model ----
(***************************************************************************)
(* The validation-and-relay pipeline of the n8n WhatsApp launchpad:        *)
(*   - payloadSchema, tryParseWorkflowVars, normalizeDateField and         *)
(*     handleSubmit of the client composer (src/unnamed/part_000),         *)
(*   - inboundSchema, POST and safeJson of the relay endpoint              *)
(*     (src/web/src/app/api/trigger/route.ts).                             *)
(*                                                                         *)
(* A string is a sequence of characters.  An element of such a sequence is *)
(* a single character or an opaque run of characters none of which is a    *)
(* blank, a digit, a comma or a line break (such as "promo"), so that      *)
(* trimming, splitting and the digit pattern are computed element by       *)
(* element.  A JSON value is a record [k, s] (its kind and, for a string   *)
(* or a number, its text); "undefined" stands for a key that is absent,    *)
(* which is also what JSON.stringify makes of an undefined property.       *)
(***************************************************************************)
EXTENDS Integers, Sequences, FiniteSets, TLC

(***************************************************************************)
(* Bounds of the model                                                     *)
(***************************************************************************)
\* the longest recipients array of a request body, and the most entries of
\* a recipients text of the form
MaxRecipients == 2

(***************************************************************************)
(* Characters and strings                                                  *)
(***************************************************************************)
SPACE == " "
NEWLINE == "\n"
COMMA == ","
Digits == {"0", "1", "2", "3", "4", "5", "6", "7", "8", "9"}

\* String.prototype.trim removes white space and line terminators
IsSpace(c) == c \in {SPACE, NEWLINE}
IsDigit(c) == c \in Digits

Rep(c, n) == [i \in 1..n |-> c]

RECURSIVE TrimStart(_)
TrimStart(s) ==
  IF s # <<>> /\ IsSpace(Head(s)) THEN TrimStart(Tail(s)) ELSE s

RECURSIVE TrimEnd(_)
TrimEnd(s) ==
  IF s # <<>> /\ IsSpace(s[Len(s)]) THEN TrimEnd(SubSeq(s, 1, Len(s) - 1)) ELSE s

Trim(s) == TrimEnd(TrimStart(s))

\* the quantifier bounds of /^\d{6,15}$/
MinDigits == 6
MaxDigits == 15

\* /^\d{6,15}$/.test(s)
MatchesRecipient(s) ==
  /\ Len(s) \in MinDigits..MaxDigits
  /\ \A i \in 1..Len(s) : IsDigit(s[i])

\* value.split(/[\n,]+/): a run of separators separates once; a separator
\* at either end leaves an empty entry there
IsSeparator(c) == c \in {NEWLINE, COMMA}

RECURSIVE SplitFrom(_, _, _, _)
SplitFrom(s, i, cur, inRun) ==
  IF i > Len(s) THEN <<cur>>
  ELSE IF IsSeparator(s[i])
       THEN IF inRun THEN SplitFrom(s, i + 1, cur, TRUE)
            ELSE <<cur>> \o SplitFrom(s, i + 1, <<>>, TRUE)
       ELSE SplitFrom(s, i + 1, Append(cur, s[i]), FALSE)

Split(s) == SplitFrom(s, 1, <<>>, FALSE)

\* .map((entry) => entry.trim())
MapTrim(entries) == [i \in 1..Len(entries) |-> Trim(entries[i])]

\* .filter(Boolean): the empty string is the one falsy string
RECURSIVE FilterBoolean(_)
FilterBoolean(entries) ==
  IF entries = <<>> THEN <<>>
  ELSE IF Head(entries) = <<>> THEN FilterBoolean(Tail(entries))
       ELSE <<Head(entries)>> \o FilterBoolean(Tail(entries))

(***************************************************************************)
(* JSON values                                                             *)
(***************************************************************************)
Undef == [k |-> "undefined", s |-> <<>>]
Str(s) == [k |-> "string", s |-> s]
Num(s) == [k |-> "number", s |-> s]
Bool(s) == [k |-> "boolean", s |-> s]
Null == [k |-> "null", s |-> <<>>]
\* a nested object or array, as a value of workflowVars
Nested(k) == [k |-> k, s |-> <<>>]

\* an array: its kind and items; an object used as a record: its kind and
\* entries [key, val]; any other kind has neither
Arr(items) == [k |-> "array", s |-> <<>>, items |-> items]
NotArr(v) == [k |-> v.k, s |-> v.s, items |-> <<>>]
Obj(ents) == [k |-> "object", s |-> <<>>, ents |-> ents]
NotObj(v) == [k |-> v.k, s |-> v.s, ents |-> <<>>]

\* String(value)
JsString(v) ==
  CASE v.k = "string" -> v.s
    [] v.k = "number" -> v.s
    [] v.k = "boolean" -> v.s
    [] v.k = "null" -> <<"null">>
    [] v.k = "undefined" -> <<"undefined">>
    [] v.k = "object" -> <<"[object Object]">>
    [] v.k = "array" -> v.s

\* !value
Falsy(v) ==
  \/ v.k \in {"undefined", "null"}
  \/ v.k = "string" /\ v.s = <<>>
  \/ v.k = "number" /\ v.s = <<"0">>
  \/ v.k = "boolean" /\ v.s = <<"false">>

(***************************************************************************)
(* Platform functions, on the strings the model draws                      *)
(***************************************************************************)
URL_OK == <<"https:", "//cdn.example/a.png">>
URL_BAD == <<"not-a-url">>

\* new URL(s) does not throw (zod's url check); the URL parser first strips
\* leading and trailing blanks
UrlParses(s) == Trim(s) = URL_OK

DATE_LOCAL == <<"2030-01-01T10:00">>
DATE_ISO == <<"2030-01-01T10:00:00Z">>
DATE_TEXT == <<"Jan", SPACE, "1,", SPACE, "2030">>
DATE_BAD == <<"tomorrow">>

\* !Number.isNaN(Date.parse(s))
DateParses(s) == s \in {DATE_LOCAL, DATE_ISO, DATE_TEXT}

\* date-fns parseISO(s) is a valid date
ParseISOValid(s) == s \in {DATE_LOCAL, DATE_ISO}

\* date-fns formatISO(parseISO(s)), for a valid date
FormatISO(s) == DATE_ISO

(***************************************************************************)
(* zod: the result of parsing one value is [st, v, issues], st being       *)
(* "valid", "dirty" (a check failed, the value is kept) or "aborted" (the  *)
(* type is wrong).  The messages no schema of the repository sets are      *)
(* zod's own.                                                              *)
(***************************************************************************)
InvalidType(expected, received) ==
  CASE received = "undefined" -> "Required"
    [] expected = "string" /\ received = "number" -> "Expected string, received number"
    [] expected = "array" /\ received = "string" -> "Expected array, received string"
    [] expected = "object" /\ received = "array" -> "Expected object, received array"
    [] expected = "object" /\ received = "number" -> "Expected object, received number"
    [] expected = "object" /\ received = "string" -> "Expected object, received string"
    [] expected = "object" /\ received = "boolean" -> "Expected object, received boolean"
    [] expected = "object" /\ received = "null" -> "Expected object, received null"
    [] OTHER -> "Invalid input"

INVALID_URL == "Invalid url"
INVALID_UNION == "Invalid input"

Valid(v) == [st |-> "valid", v |-> v, issues |-> <<>>]
Dirty(v, issues) == [st |-> "dirty", v |-> v, issues |-> issues]
Aborted(v, issues) == [st |-> "aborted", v |-> v, issues |-> issues]

\* ZTrimMin checking the trimmed text and keeping the text as given
ZTrimMinUntrimmed(v, msg) ==
  IF v.k # "string" THEN Aborted(Undef, <<InvalidType("string", v.k)>>)
  ELSE IF Len(Trim(v.s)) < 1 THEN Dirty(v, <<msg>>)
       ELSE Valid(v)

\* z.string().trim().min(1, msg)
ZTrimMin(v, msg) ==
  IF v.k # "string" THEN Aborted(Undef, <<InvalidType("string", v.k)>>)
  ELSE IF Len(Trim(v.s)) < 1 THEN Dirty(Str(Trim(v.s)), <<msg>>)
       ELSE Valid(Str(Trim(v.s)))

\* z.string().trim().regex(/^\d{6,15}$/, msg)
ZTrimRegex(v, msg) ==
  IF v.k # "string" THEN Aborted(Undef, <<InvalidType("string", v.k)>>)
  ELSE IF ~MatchesRecipient(Trim(v.s)) THEN Dirty(Str(Trim(v.s)), <<msg>>)
       ELSE Valid(Str(Trim(v.s)))

\* z.string().url(msg).optional()
ZOptionalUrl(v, msg) ==
  IF v.k = "undefined" THEN Valid(Undef)
  ELSE IF v.k # "string" THEN Aborted(Undef, <<InvalidType("string", v.k)>>)
       ELSE IF ~UrlParses(v.s) THEN Dirty(v, <<msg>>)
            ELSE Valid(v)

\* z.string().optional().refine((value) => !value || !Number.isNaN(Date.parse(value)), msg)
ZOptionalDate(v, msg) ==
  IF v.k = "undefined" THEN Valid(Undef)
  ELSE IF v.k # "string" THEN Aborted(Undef, <<InvalidType("string", v.k)>>)
       ELSE IF ~(Falsy(v) \/ DateParses(v.s)) THEN Dirty(v, <<msg>>)
            ELSE Valid(v)

\* the issues of the values of a record, in the order of its entries
RECURSIVE RecordIssues(_)
RecordIssues(ents) ==
  IF ents = <<>> THEN <<>>
  ELSE (IF Head(ents).val.k = "string" THEN <<>>
        ELSE <<InvalidType("string", Head(ents).val.k)>>)
       \o RecordIssues(Tail(ents))

\* z.record(z.string(), z.string()).optional()
ZOptionalRecord(v) ==
  IF v.k = "undefined" THEN Valid(v)
  ELSE IF v.k # "object" THEN Aborted(NotObj(Undef), <<InvalidType("object", v.k)>>)
       ELSE IF RecordIssues(v.ents) # <<>> THEN Aborted(NotObj(Undef), RecordIssues(v.ents))
            ELSE Valid(v)

\* the results of the items of an array, one by one
ItemResults(items, msg) == [i \in 1..Len(items) |-> ZTrimRegex(items[i], msg)]

RECURSIVE ConcatIssues(_)
ConcatIssues(results) ==
  IF results = <<>> THEN <<>>
  ELSE Head(results).issues \o ConcatIssues(Tail(results))

\* z.array(z.string().trim().regex(..., itemMsg)).min(1, minMsg)
ZRecipientsArray(v, itemMsg, minMsg) ==
  IF v.k # "array" THEN Aborted(Arr(<<>>), <<InvalidType("array", v.k)>>)
  ELSE LET res == ItemResults(v.items, itemMsg)
           out == Arr([i \in 1..Len(res) |-> res[i].v])
           iss == (IF Len(v.items) < 1 THEN <<minMsg>> ELSE <<>>) \o ConcatIssues(res)
       IN  IF \E i \in 1..Len(res) : res[i].st = "aborted" THEN Aborted(out, iss)
           ELSE IF iss # <<>> THEN Dirty(out, iss)
                ELSE Valid(out)

(***************************************************************************)
(* A request body: the six keys of the schema, and the two keys the relay  *)
(* endpoint adds, which a caller may supply as well.  kind is "object" for *)
(* a JSON object and "number" for a JSON document that is not one.         *)
(***************************************************************************)
Body(tag, rcp, msg, url, vars, at, reqAt, org) ==
  [kind |-> "object", workflowTag |-> tag, recipients |-> rcp, message |-> msg,
   mediaUrl |-> url, workflowVars |-> vars, sendAt |-> at,
   requestedAt |-> reqAt, origin |-> org]

NoData ==
  [kind |-> "undefined", workflowTag |-> Undef, recipients |-> NotArr(Undef),
   message |-> Undef, mediaUrl |-> Undef, workflowVars |-> NotObj(Undef),
   sendAt |-> Undef, requestedAt |-> Undef, origin |-> Undef]

\* a JSON document that is not an object (the number 5)
PrimitiveBody == [NoData EXCEPT !.kind = "number"]

\* SafeParseResult reporting the first failing key only
SafeParseFirstIssueOnly(fields) ==
  LET failing == {i \in 1..6 : fields[i].st # "valid"}
      first == CHOOSE i \in failing : \A j \in failing : i <= j
  IN  IF failing = {}
      THEN [success |-> TRUE, issues |-> <<>>,
            data |-> Body(fields[1].v, fields[2].v, fields[3].v, fields[4].v,
                          fields[5].v, fields[6].v, Undef, Undef)]
      ELSE [success |-> FALSE, issues |-> fields[first].issues, data |-> NoData]

\* the result of safeParse: parsed.success, parsed.data, and the messages
\* of parsed.error.issues in their order
SafeParseResult(fields) ==
  LET iss == fields[1].issues \o fields[2].issues \o fields[3].issues
             \o fields[4].issues \o fields[5].issues \o fields[6].issues
  IN  IF \A i \in 1..6 : fields[i].st = "valid"
      THEN [success |-> TRUE, issues |-> <<>>,
            data |-> Body(fields[1].v, fields[2].v, fields[3].v, fields[4].v,
                          fields[5].v, fields[6].v, Undef, Undef)]
      ELSE [success |-> FALSE, issues |-> iss, data |-> NoData]

\* inboundSchema (z.object strips the keys its shape does not name)
inboundSchema(body) ==
  IF body.kind # "object"
  THEN [success |-> FALSE, issues |-> <<InvalidType("object", body.kind)>>, data |-> NoData]
  ELSE SafeParseResult(<<
         ZTrimMin(body.workflowTag, "workflowTag is required"),
         ZRecipientsArray(body.recipients,
                          "Recipients must be numeric in international format",
                          "Provide at least one recipient"),
         ZTrimMin(body.message, "message is required"),
         ZOptionalUrl(body.mediaUrl, INVALID_URL),
         ZOptionalRecord(body.workflowVars),
         ZOptionalDate(body.sendAt, "sendAt must be a valid ISO 8601 date string") >>)

(***************************************************************************)
(* The client composer's validators                                        *)
(***************************************************************************)
\* z.string().trim().min(1, msg).transform(split, trim each, drop empties);
\* the transform does not run on a value that failed a check
ZRecipientsText(v, msg) ==
  IF v.k # "string" THEN Aborted(Arr(<<>>), <<InvalidType("string", v.k)>>)
  ELSE IF Len(Trim(v.s)) < 1 THEN Dirty(Arr(<<>>), <<msg>>)
       ELSE LET entries == FilterBoolean(MapTrim(Split(Trim(v.s))))
            IN  Valid(Arr([i \in 1..Len(entries) |-> Str(entries[i])]))

\* z.string().url(msg).optional().or(z.literal("")): the first option that is
\* valid wins; failing that the first dirty one; failing that the union fails
ZUrlOrEmpty(v, msg) ==
  LET first == ZOptionalUrl(v, msg)
  IN  IF first.st = "valid" THEN first
      ELSE IF v = Str(<<>>) THEN Valid(v)
           ELSE IF first.st = "dirty" THEN first
                ELSE Aborted(Undef, <<INVALID_UNION>>)

\* payloadSchema
payloadSchema(input) ==
  IF input.kind # "object"
  THEN [success |-> FALSE, issues |-> <<InvalidType("object", input.kind)>>, data |-> NoData]
  ELSE SafeParseResult(<<
         ZTrimMin(input.workflowTag, "Workflow tag is required"),
         ZRecipientsText(input.recipients, "At least one recipient is required"),
         ZTrimMin(input.message, "A message body is required"),
         ZUrlOrEmpty(input.mediaUrl, "Must be a valid URL"),
         ZOptionalRecord(input.workflowVars),
         ZOptionalDate(input.sendAt, "Send at must be a valid ISO date") >>)

\* normalizeDateField
normalizeDateField(value) ==
  IF value = <<>> THEN Undef
  ELSE IF ParseISOValid(value) THEN Str(FormatISO(value))
       ELSE Str(value)

\* the JSON texts the model draws for the workflow variables field
JSON_ARRAY == <<"[1]">>
JSON_NUMBER == <<"5">>
JSON_ZERO == <<"0">>
JSON_STRING == <<"'hi'">>
JSON_TRUE == <<"true">>
JSON_FALSE == <<"false">>
JSON_NULL == <<"null">>
JSON_EMPTY_OBJECT == <<"{}">>
JSON_DEFAULT == <<"{'source':'web-portal'}">>
JSON_MIXED == <<"{'n':1,'o':{},'z':null}">>
JSON_BROKEN == <<"{oops">>

\* JSON.parse(text): [ok, v] and, when it throws, the SyntaxError's message
JsonParse(text) ==
  LET t == Trim(text)
      ok(v) == [ok |-> TRUE, v |-> v, message |-> ""]
  IN  CASE t = JSON_ARRAY -> ok(NotObj(Nested("array")))
        [] t = JSON_NUMBER -> ok(NotObj(Num(<<"5">>)))
        [] t = JSON_ZERO -> ok(NotObj(Num(<<"0">>)))
        [] t = JSON_STRING -> ok(NotObj(Str(<<"hi">>)))
        [] t = JSON_TRUE -> ok(NotObj(Bool(<<"true">>)))
        [] t = JSON_FALSE -> ok(NotObj(Bool(<<"false">>)))
        [] t = JSON_NULL -> ok(NotObj(Null))
        [] t = JSON_EMPTY_OBJECT -> ok(Obj(<<>>))
        [] t = JSON_DEFAULT ->
             ok(Obj(<<[key |-> "source", val |-> Str(<<"web-portal">>)]>>))
        [] t = JSON_MIXED ->
             ok(Obj(<<[key |-> "n", val |-> Num(<<"1">>)],
                      [key |-> "o", val |-> Nested("object")],
                      [key |-> "z", val |-> Null]>>))
        [] OTHER -> [ok |-> FALSE, v |-> NotObj(Undef),
                     message |-> "Unexpected token o in JSON at position 1"]

\* Object.entries(parsed).reduce(... acc[key] = String(current) ...)
StringifyValues(ents) ==
  [i \in 1..Len(ents) |-> [key |-> ents[i].key, val |-> Str(JsString(ents[i].val))]]

\* tryParseWorkflowVars without the Array.isArray test
tryParseWorkflowVarsNoArrayTest(input) ==
  IF Trim(input) = <<>>
  THEN [status |-> "ok", value |-> NotObj(Undef), message |-> <<>>]
  ELSE LET parsed == JsonParse(input)
       IN  IF ~parsed.ok
           THEN [status |-> "error", value |-> NotObj(Undef),
                 message |-> <<"Invalid workflow variables JSON: ", parsed.message>>]
           ELSE IF Falsy(parsed.v) \/ parsed.v.k \notin {"object", "array"}
                THEN [status |-> "error", value |-> NotObj(Undef),
                      message |-> <<"Workflow variables must be a JSON object.">>]
                ELSE [status |-> "ok", value |-> Obj(StringifyValues(parsed.v.ents)),
                      message |-> <<>>]

\* tryParseWorkflowVars
tryParseWorkflowVars(input) ==
  IF Trim(input) = <<>>
  THEN [status |-> "ok", value |-> NotObj(Undef), message |-> <<>>]
  ELSE LET parsed == JsonParse(input)
       IN  IF ~parsed.ok
           THEN [status |-> "error", value |-> NotObj(Undef),
                 message |-> <<"Invalid workflow variables JSON: ", parsed.message>>]
           ELSE IF Falsy(parsed.v) \/ parsed.v.k \notin {"object", "array"}
                   \/ parsed.v.k = "array"
                THEN [status |-> "error", value |-> NotObj(Undef),
                      message |-> <<"Workflow variables must be a JSON object.">>]
                ELSE [status |-> "ok", value |-> Obj(StringifyValues(parsed.v.ents)),
                      message |-> <<>>]

\* the object handleSubmit hands to payloadSchema.safeParse
SubmitInput(form, vars) ==
  Body(Str(form.workflowTag), NotArr(Str(form.recipients)), Str(form.message),
       Str(form.mediaUrl), vars, normalizeDateField(form.sendAt), Undef, Undef)

(***************************************************************************)
(* The state                                                               *)
(***************************************************************************)
VARIABLES
  N8N_WEBHOOK_URL,  \* route.ts:4, "" when the variable is unset or empty
  N8N_API_KEY,      \* route.ts:5, "" when the variable is unset or empty
  form,             \* the composer's form fields, each a string
  formState,        \* the composer's FormState
  composer,         \* where handleSubmit's transition stands
  rq,               \* the requests the relay endpoint is handling
  outbound          \* the calls made to the downstream webhook, in order

vars == <<N8N_WEBHOOK_URL, N8N_API_KEY, form, formState, composer, rq, outbound>>

\* the requests in flight at the relay endpoint
Reqs == {"r1", "r2"}

NoIssues == [present |-> FALSE, list |-> <<>>]
Issues(list) == [present |-> TRUE, list |-> list]
NoJson == [present |-> FALSE, json |-> ""]
Json(text) == [present |-> TRUE, json |-> text]

\* NextResponse.json({message, issues, n8nResponse}, {status}); a property
\* whose value is undefined is left out of the JSON
Response(status, message, issues, n8n) ==
  [status |-> status, message |-> message, issues |-> issues, n8nResponse |-> n8n]
NoResponse == Response(0, <<>>, NoIssues, NoJson)

\* a thrown value: whether it is an Error, its message, and String(value)
Thrown(isError, message, string) ==
  [isError |-> isError, message |-> message, string |-> string]
NoThrown == Thrown(FALSE, "", "")

\* what the downstream did with the call: nothing yet, the call threw, or
\* it answered with a status and a body that can be read or not
NoDownstream ==
  [t |-> "none", status |-> 0, readable |-> FALSE, text |-> "", error |-> NoThrown]
DownThrew(error) ==
  [t |-> "throw", status |-> 0, readable |-> FALSE, text |-> "", error |-> error]
DownAnswered(status, readable, text) ==
  [t |-> "response", status |-> status, readable |-> readable, text |-> text,
   error |-> NoThrown]

\* one request at the relay endpoint
Request(pc, json, body, originHeader) ==
  [pc |-> pc, json |-> json, body |-> body, originHeader |-> originHeader,
   now |-> Undef, payload |-> NoData, down |-> NoDownstream, res |-> NoResponse]
NoRequest == Request("none", FALSE, NoData, Undef)

NoForm ==
  [workflowTag |-> <<>>, recipients |-> <<>>, message |-> <<>>, mediaUrl |-> <<>>,
   sendAt |-> <<>>, workflowVars |-> <<>>]
FormIdle == [status |-> "idle", message |-> <<>>, issues |-> NoIssues]
FormSuccess(message) == [status |-> "success", message |-> message, issues |-> NoIssues]
FormError(message, issues) == [status |-> "error", message |-> message, issues |-> issues]

(***************************************************************************)
(* The inputs the model draws                                              *)
(***************************************************************************)
D(n) == Rep("5", n)
SeqsUpTo(S, n) == UNION {[1..m -> S] : m \in 0..n}

RECURSIVE Join(_, _)
Join(entries, sep) ==
  IF entries = <<>> THEN <<>>
  ELSE IF Len(entries) = 1 THEN Head(entries)
       ELSE Head(entries) \o sep \o Join(Tail(entries), sep)

\* defaultValues, with the composer's initial workflowVars text
DEFAULT_RECIPIENT == <<"1", "5", "5", "5", "1", "2", "3", "4", "5", "6", "7">>
defaultValues ==
  [workflowTag |-> <<"whatsapp-broadcast">>, recipients |-> DEFAULT_RECIPIENT,
   message |-> <<"Hello", SPACE, "from", SPACE, "n8n!">>, mediaUrl |-> <<>>,
   sendAt |-> <<>>, workflowVars |-> JSON_DEFAULT]

TagTexts == {<<>>, <<SPACE>>, <<"promo">>, <<SPACE, "promo", NEWLINE>>}
MessageTexts == {<<>>, <<NEWLINE>>, <<"hi">>}
RecipientEntries ==
  {D(MinDigits - 1), DEFAULT_RECIPIENT, D(MaxDigits + 1), <<"+">> \o D(MinDigits),
   <<SPACE>> \o D(MaxDigits)}
RecipientTexts ==
  {<<>>, <<SPACE>>, <<COMMA>>, <<COMMA, NEWLINE, SPACE, COMMA>>}
  \cup {Join(e, sep) : e \in SeqsUpTo(RecipientEntries, MaxRecipients) \ {<<>>},
                       sep \in {<<COMMA>>, <<NEWLINE>>}}
  \cup {DEFAULT_RECIPIENT \o <<COMMA, SPACE, NEWLINE>> \o DEFAULT_RECIPIENT \o <<COMMA>>}
MediaUrlTexts == {<<>>, URL_OK, URL_BAD, <<SPACE>>}
SendAtTexts == {<<>>, DATE_LOCAL, DATE_ISO, DATE_TEXT, DATE_BAD}
WorkflowVarsTexts ==
  {<<>>, <<SPACE, NEWLINE>>, JSON_ARRAY, JSON_NUMBER, JSON_ZERO, JSON_STRING,
   JSON_TRUE, JSON_FALSE, JSON_NULL, JSON_EMPTY_OBJECT, JSON_DEFAULT,
   <<SPACE>> \o JSON_DEFAULT, JSON_MIXED, JSON_BROKEN}

\* the forms a run starts from: the required fields vary with the optional
\* ones as in defaultValues, and the optional ones with the required ones
\* as in defaultValues
Forms ==
  {[defaultValues EXCEPT !.workflowTag = tag, !.recipients = rcp, !.message = msg]
     : tag \in TagTexts \cup {defaultValues.workflowTag},
       rcp \in RecipientTexts, msg \in MessageTexts \cup {defaultValues.message}}
  \cup
  {[defaultValues EXCEPT !.mediaUrl = url, !.sendAt = at, !.workflowVars = wv]
     : url \in MediaUrlTexts, at \in SendAtTexts, wv \in WorkflowVarsTexts}

\* the instants a request may be processed at, as toISOString gives them
Instants == {"2030-01-01T09:00:00.000Z", "2030-01-01T09:00:01.000Z"}
toISOString(instant) == Str(<<instant>>)

SITE_ORIGIN == <<"https://launchpad.example">>
OriginHeaders == {Undef, Str(SITE_ORIGIN)}

TagValues == {Undef, Num(<<"7">>)} \cup {Str(s) : s \in TagTexts}
MessageValues == {Undef} \cup {Str(s) : s \in MessageTexts}
RecipientItems ==
  {Num(DEFAULT_RECIPIENT), Str(<<>>), Str(D(MinDigits - 1)), Str(D(MinDigits)),
   Str(D(MaxDigits)), Str(D(MaxDigits + 1)), Str(<<"+">> \o D(MinDigits)),
   Str(<<SPACE>> \o DEFAULT_RECIPIENT \o <<NEWLINE>>)}
RecipientValues ==
  {NotArr(Undef), NotArr(Str(DEFAULT_RECIPIENT))}
  \cup {Arr(items) : items \in SeqsUpTo(RecipientItems, MaxRecipients)}
MediaUrlValues ==
  {Undef, Num(<<"7">>), Str(<<SPACE>> \o URL_OK \o <<SPACE>>)}
  \cup {Str(s) : s \in MediaUrlTexts}
SendAtValues == {Undef, Num(<<"7">>)} \cup {Str(s) : s \in SendAtTexts \ {DATE_LOCAL}}
WorkflowVarsValues ==
  {NotObj(Undef), NotObj(Nested("array")), NotObj(Num(<<"5">>)), NotObj(Num(<<"0">>)),
   NotObj(Str(<<"hi">>)), NotObj(Bool(<<"true">>)), NotObj(Null), Obj(<<>>),
   Obj(<<[key |-> "source", val |-> Str(<<"web-portal">>)]>>),
   Obj(<<[key |-> "source", val |-> Str(<<SPACE, "web-portal", SPACE>>)]>>),
   Obj(<<[key |-> "source", val |-> Str(<<"web-portal">>)],
         [key |-> "n", val |-> Num(<<"1">>)]>>)}
RequestedAtValues ==
  {Undef, Str(<<"1999-12-31T00:00:00.000Z">>)} \cup {toISOString(i) : i \in Instants}
OriginValues == {Undef, Str(<<"https://evil.example">>)}

\* Scenario A's body, and Scenario C's
ScenarioA ==
  Body(Str(<<"promo">>), Arr(<<Str(DEFAULT_RECIPIENT)>>), Str(<<"hi">>), Undef,
       NotObj(Undef), Undef, Undef, Undef)
ScenarioC ==
  Body(Str(<<>>), Arr(<<>>), Str(<<>>), Undef, NotObj(Undef), Undef, Undef, Undef)

\* the JSON bodies a direct caller posts: the required keys vary with the
\* optional ones absent, and the optional ones with the required ones as in
\* Scenario A or Scenario C
Bodies ==
  {PrimitiveBody}
  \cup
  {[ScenarioA EXCEPT !.workflowTag = tag, !.recipients = rcp, !.message = msg]
     : tag \in TagValues, rcp \in RecipientValues, msg \in MessageValues}
  \cup
  {[base EXCEPT !.mediaUrl = url, !.workflowVars = wv, !.sendAt = at,
                !.requestedAt = reqAt, !.origin = org]
     : base \in {ScenarioA, ScenarioC}, url \in MediaUrlValues,
       wv \in WorkflowVarsValues, at \in SendAtValues,
       reqAt \in RequestedAtValues, org \in OriginValues}

WEBHOOK_URL == "https://n8n.example/webhook/whatsapp-relay"
\* the environments a process starts in
Environments ==
  {[url |-> "", key |-> ""], [url |-> WEBHOOK_URL, key |-> ""],
   [url |-> WEBHOOK_URL, key |-> "secret"]}

\* what the downstream may do with a call
DownstreamErrors ==
  {Thrown(TRUE, "fetch failed", "TypeError: fetch failed"),
   Thrown(FALSE, "", "connection reset")}
DownstreamStatuses == {200, 204, 404, 500}
DownstreamTexts == {"", "boom", "{'executionId':17}", "null"}
\* response.json() parses the text
ParsesAsJson(text) == text \in {"{'executionId':17}", "null"}
\* reading a body the connection lost fails
BODY_LOST == Thrown(TRUE, "terminated", "TypeError: terminated")
\* request.json() of a body that is not JSON throws
BODY_NOT_JSON ==
  Thrown(TRUE, "Unexpected token h in JSON at position 0",
         "SyntaxError: Unexpected token h in JSON at position 0")

(***************************************************************************)
(* The relay endpoint                                                      *)
(***************************************************************************)
\* Enrich without the requestedAt stamp
EnrichUnstamped(data, originHeader, instant) ==
  [data EXCEPT !.origin = originHeader]

\* { ...parsed.data, requestedAt: new Date().toISOString(),
\*   origin: request.headers.get("origin") ?? undefined }
Enrich(data, originHeader, instant) ==
  [data EXCEPT !.requestedAt = toISOString(instant), !.origin = originHeader]

\* the fetch call POST makes: its URL, its headers and its JSON body
OutboundCall(r, payload) ==
  [req |-> r, url |-> N8N_WEBHOOK_URL, method |-> "POST",
   contentType |-> "application/json", apiKey |-> N8N_API_KEY, body |-> payload]

\* response.ok
IsOk(status) == status >= 200 /\ status <= 299

\* safeJson: the parsed body, or undefined when reading or parsing throws
safeJson(down) ==
  IF down.readable /\ ParsesAsJson(down.text) THEN Json(down.text) ELSE NoJson

\* error instanceof Error ? error.message : String(error)
ErrorText(error) == IF error.isError THEN error.message ELSE error.string

Respond(r, res) == rq' = [rq EXCEPT ![r].pc = "responded", ![r].res = res]

\* Gates with the body parsed before the configuration is checked
GatesParseFirst(url, json, parsed) ==
  IF ~json
  THEN Response(400, <<"Invalid JSON payload">>, Issues(<<BODY_NOT_JSON.string>>), NoJson)
  ELSE IF url = ""
       THEN Response(500,
              <<"N8N_WEBHOOK_URL is not configured. Set it in your Vercel project environment variables.">>,
              NoIssues, NoJson)
       ELSE IF ~parsed.success
            THEN Response(422, <<"Validation failed">>, Issues(parsed.issues), NoJson)
            ELSE NoResponse

\* the three gates of POST, in their order: the response of the first one
\* that fails, NoResponse when the request passes all three
Gates(url, json, parsed) ==
  IF url = ""
  THEN Response(500,
         <<"N8N_WEBHOOK_URL is not configured. Set it in your Vercel project environment variables.">>,
         NoIssues, NoJson)
  ELSE IF ~json
       THEN Response(400, <<"Invalid JSON payload">>, Issues(<<BODY_NOT_JSON.string>>),
                     NoJson)
       ELSE IF ~parsed.success
            THEN Response(422, <<"Validation failed">>, Issues(parsed.issues), NoJson)
            ELSE NoResponse

\* POST answering a payload it has forwarded before without a second call
POSTDeduplicating(r) ==
  /\ rq[r].pc = "received"
  /\ LET parsed == inboundSchema(rq[r].body)
         gate == Gates(N8N_WEBHOOK_URL, rq[r].json, parsed)
     IN  IF gate # NoResponse
         THEN /\ Respond(r, gate)
              /\ UNCHANGED outbound
         ELSE IF \E i \in 1..Len(outbound) :
                   [outbound[i].body EXCEPT !.requestedAt = Undef, !.origin = Undef]
                     = parsed.data
              THEN /\ Respond(r, Response(200, <<"Workflow dispatched to n8n.">>,
                                          NoIssues, NoJson))
                   /\ UNCHANGED outbound
              ELSE \E instant \in Instants :
                     LET payload == Enrich(parsed.data, rq[r].originHeader, instant)
                     IN  /\ rq' = [rq EXCEPT ![r].pc = "fetching",
                                             ![r].now = toISOString(instant),
                                             ![r].payload = payload]
                         /\ outbound' = Append(outbound, OutboundCall(r, payload))
  /\ UNCHANGED <<N8N_WEBHOOK_URL, N8N_API_KEY, form, formState, composer>>

\* POST, from its entry to the fetch call
POST(r) ==
  /\ rq[r].pc = "received"
  /\ LET parsed == inboundSchema(rq[r].body)
         gate == Gates(N8N_WEBHOOK_URL, rq[r].json, parsed)
     IN  IF gate # NoResponse
         THEN /\ Respond(r, gate)
              /\ UNCHANGED outbound
         ELSE \E instant \in Instants :
                LET payload == Enrich(parsed.data, rq[r].originHeader, instant)
                IN  /\ rq' = [rq EXCEPT ![r].pc = "fetching",
                                        ![r].now = toISOString(instant),
                                        ![r].payload = payload]
                    /\ outbound' = Append(outbound, OutboundCall(r, payload))
  /\ UNCHANGED <<N8N_WEBHOOK_URL, N8N_API_KEY, form, formState, composer>>

\* the catch block of POST
Caught(error) ==
  Response(504, <<"Failed to communicate with n8n webhook.">>,
           Issues(<<ErrorText(error)>>), NoJson)

\* FetchRejects with the call made once more before giving up
FetchRejectsRetrying(r) ==
  /\ rq[r].pc = "fetching"
  /\ \E error \in DownstreamErrors :
       rq' = [rq EXCEPT ![r].pc = "responded", ![r].down = DownThrew(error),
                        ![r].res = Caught(error)]
  /\ outbound' = Append(outbound, OutboundCall(r, rq[r].payload))
  /\ UNCHANGED <<N8N_WEBHOOK_URL, N8N_API_KEY, form, formState, composer>>

\* POST resumes: fetch threw
FetchRejects(r) ==
  /\ rq[r].pc = "fetching"
  /\ \E error \in DownstreamErrors :
       rq' = [rq EXCEPT ![r].pc = "responded", ![r].down = DownThrew(error),
                        ![r].res = Caught(error)]
  /\ UNCHANGED <<N8N_WEBHOOK_URL, N8N_API_KEY, form, formState, composer, outbound>>

\* Outcome with response.json() called outside safeJson
OutcomeUnsafeJson(down) ==
  IF ~IsOk(down.status)
  THEN IF ~down.readable
       THEN Caught(BODY_LOST)
       ELSE Response(502, <<"n8n responded with status ", ToString(down.status)>>,
                     IF down.text # "" THEN Issues(<<down.text>>) ELSE NoIssues,
                     NoJson)
  ELSE IF ~down.readable
       THEN Caught(BODY_LOST)
       ELSE IF ~ParsesAsJson(down.text)
            THEN Caught(Thrown(TRUE, "Unexpected end of JSON input",
                               "SyntaxError: Unexpected end of JSON input"))
            ELSE Response(200, <<"Workflow dispatched to n8n.">>, NoIssues, Json(down.text))

\* POST after fetch resolved with the downstream's answer
Outcome(down) ==
  IF ~IsOk(down.status)
  THEN IF ~down.readable
       THEN Caught(BODY_LOST)
       ELSE Response(502, <<"n8n responded with status ", ToString(down.status)>>,
                     IF down.text # "" THEN Issues(<<down.text>>) ELSE NoIssues,
                     NoJson)
  ELSE Response(200, <<"Workflow dispatched to n8n.">>, NoIssues, safeJson(down))

\* POST resumes: fetch resolved; a 204 has no body, and nothing is read of a
\* body the connection lost
FetchResolves(r) ==
  /\ rq[r].pc = "fetching"
  /\ \E status \in DownstreamStatuses, readable \in BOOLEAN, text \in DownstreamTexts :
       /\ (status = 204 \/ ~readable) => text = ""
       /\ rq' = [rq EXCEPT ![r].pc = "responded",
                           ![r].down = DownAnswered(status, readable, text),
                           ![r].res = Outcome(DownAnswered(status, readable, text))]
  /\ UNCHANGED <<N8N_WEBHOOK_URL, N8N_API_KEY, form, formState, composer, outbound>>

(***************************************************************************)
(* The client composer                                                     *)
(***************************************************************************)
\* Submission without setFormState({ status: "idle" }): the FormState of
\* the submission before stays while the new one is pending
SubmissionNoReset(f) ==
  LET parsedVars == tryParseWorkflowVars(f.workflowVars)
      parsed == payloadSchema(SubmitInput(f, parsedVars.value))
  IN  IF parsedVars.status = "error"
      THEN [posts |-> FALSE, state |-> FormError(parsedVars.message, NoIssues),
            body |-> NoData]
      ELSE IF ~parsed.success
           THEN [posts |-> FALSE, body |-> NoData,
                 state |-> FormError(<<"Fix the highlighted issues.">>,
                                     Issues(parsed.issues))]
           ELSE [posts |-> TRUE, state |-> formState, body |-> parsed.data]

\* what handleSubmit's transition does up to its fetch call: the new
\* FormState, and the body it posts if it posts one
Submission(f) ==
  LET parsedVars == tryParseWorkflowVars(f.workflowVars)
      parsed == payloadSchema(SubmitInput(f, parsedVars.value))
  IN  IF parsedVars.status = "error"
      THEN [posts |-> FALSE, state |-> FormError(parsedVars.message, NoIssues),
            body |-> NoData]
      ELSE IF ~parsed.success
           THEN [posts |-> FALSE, body |-> NoData,
                 state |-> FormError(<<"Fix the highlighted issues.">>,
                                     Issues(parsed.issues))]
           ELSE [posts |-> TRUE, state |-> FormIdle, body |-> parsed.data]

\* handleSubmit, from the submit event to the fetch call; the browser sends
\* the page's origin with the POST.  The submit button is disabled while
\* canSubmit is false (part_000:62-77, 327), but handleSubmit itself runs on
\* whatever form a submit event finds, and validates it again.
handleSubmit ==
  /\ composer = "ready"
  /\ LET sub == Submission(form)
     IN  /\ formState' = sub.state
         /\ IF sub.posts
            THEN /\ composer' = "awaiting"
                 /\ rq' = [rq EXCEPT !["r1"] =
                             Request("received", TRUE, sub.body, Str(SITE_ORIGIN))]
            ELSE /\ composer' = "settled"
                 /\ UNCHANGED rq
  /\ UNCHANGED <<N8N_WEBHOOK_URL, N8N_API_KEY, form, outbound>>

\* handleSubmit after fetch resolved with the relay endpoint's response
Settled(res) ==
  IF ~IsOk(res.status)
  THEN FormError(res.message, Issues(IF res.issues.present THEN res.issues.list ELSE <<>>))
  ELSE FormSuccess(res.message)

\* the request of the composer's latest post: the first post is "r1", a
\* second one "r2"
Current == IF rq["r2"].pc # "none" THEN "r2" ELSE "r1"

SubmitResolves ==
  /\ composer = "awaiting"
  /\ rq[Current].pc = "responded"
  /\ formState' = Settled(rq[Current].res)
  /\ composer' = "settled"
  /\ UNCHANGED <<N8N_WEBHOOK_URL, N8N_API_KEY, form, rq, outbound>>

\* the errors the composer's own fetch may throw: the browser's fetch
\* rejects with a TypeError
ComposerErrors ==
  {Thrown(TRUE, "Failed to fetch", "TypeError: Failed to fetch"),
   Thrown(TRUE, "NetworkError when attempting to fetch resource.",
          "TypeError: NetworkError when attempting to fetch resource.")}

\* SubmitRejects posting the body once more after a first failure
SubmitRejectsRetrying ==
  /\ composer = "awaiting"
  /\ IF Current = "r1"
     THEN /\ rq' = [rq EXCEPT !["r2"] =
                      Request("received", TRUE, rq["r1"].body, Str(SITE_ORIGIN))]
          /\ UNCHANGED <<formState, composer>>
     ELSE /\ \E error \in ComposerErrors :
               formState' = FormError(IF error.isError THEN <<error.message>>
                                      ELSE <<"Unexpected network error. Try again.">>,
                                      NoIssues)
          /\ composer' = "settled"
          /\ UNCHANGED rq
  /\ UNCHANGED <<N8N_WEBHOOK_URL, N8N_API_KEY, form, outbound>>

\* handleSubmit's catch block: the fetch to the relay endpoint threw
SubmitRejects ==
  /\ composer = "awaiting"
  /\ \E error \in ComposerErrors :
       formState' = FormError(IF error.isError THEN <<error.message>>
                              ELSE <<"Unexpected network error. Try again.">>,
                              NoIssues)
  /\ composer' = "settled"
  /\ UNCHANGED <<N8N_WEBHOOK_URL, N8N_API_KEY, form, rq, outbound>>

(***************************************************************************)
(* The specification                                                       *)
(***************************************************************************)
\* a process in one of the environments, and either a caller that has
\* posted a request to the relay endpoint or an operator that has filled
\* the composer's form (handleChange stores any text in any field)
InitDirect ==
  /\ composer = "off"
  /\ form = NoForm
  /\ \E originHeader \in OriginHeaders :
       \/ rq = [r \in Reqs |-> IF r = "r1"
                               THEN Request("received", FALSE, NoData, originHeader)
                               ELSE NoRequest]
       \/ \E body \in Bodies :
            rq = [r \in Reqs |-> IF r = "r1"
                                 THEN Request("received", TRUE, body, originHeader)
                                 ELSE NoRequest]

InitComposer ==
  /\ composer = "ready"
  /\ form \in Forms
  /\ rq = [r \in Reqs |-> NoRequest]

Init ==
  /\ \E env \in Environments :
       /\ N8N_WEBHOOK_URL = env.url
       /\ N8N_API_KEY = env.key
  /\ formState = FormIdle
  /\ outbound = <<>>
  /\ (InitDirect \/ InitComposer)

Next ==
  \/ \E r \in Reqs : POST(r)
  \/ \E r \in Reqs : FetchRejects(r)
  \/ \E r \in Reqs : FetchResolves(r)
  \/ handleSubmit
  \/ SubmitResolves
  \/ SubmitRejects

Spec == Init /\ [][Next]_vars

(***************************************************************************)
(* The composer in the browser: the operator edits the form and clicks the *)
(* submit button, again once a submission has ended                        *)
(***************************************************************************)
\* useTransition's isPending: handleSubmit's transition has not ended
isPending == composer = "awaiting"

\* canSubmit (the send time is validated as typed, not normalized)
canSubmit(f, pending) ==
  LET parsedVars == tryParseWorkflowVars(f.workflowVars)
  IN  /\ parsedVars.status # "error"
      /\ payloadSchema(Body(Str(f.workflowTag), NotArr(Str(f.recipients)),
                            Str(f.message), Str(f.mediaUrl), parsedVars.value,
                            Str(f.sendAt), Undef, Undef)).success
      /\ ~pending

\* handleChange(field)(event)
handleChange(field, value) ==
  /\ composer # "off"
  /\ form' = [form EXCEPT ![field] = value]
  /\ UNCHANGED <<N8N_WEBHOOK_URL, N8N_API_KEY, formState, composer, rq, outbound>>

\* what the operator types in this specification
Edits ==
  {[field |-> "mediaUrl", value |-> URL_OK],
   [field |-> "mediaUrl", value |-> defaultValues.mediaUrl],
   [field |-> "workflowTag", value |-> <<>>],
   [field |-> "workflowTag", value |-> defaultValues.workflowTag]}

\* the request a next post of the composer makes
NextPost == IF rq["r1"].pc = "none" THEN "r1" ELSE "r2"

\* a click on the submit button, which is disabled while canSubmit is
\* false: handleSubmit, from the submit event to the fetch call, for a first
\* submission and for one that follows a submission that has ended
SubmitClick ==
  /\ composer \in {"ready", "settled"}
  /\ canSubmit(form, isPending)
  /\ rq[NextPost].pc = "none"
  /\ LET sub == Submission(form)
     IN  /\ formState' = sub.state
         /\ IF sub.posts
            THEN /\ composer' = "awaiting"
                 /\ rq' = [rq EXCEPT ![NextPost] =
                             Request("received", TRUE, sub.body, Str(SITE_ORIGIN))]
            ELSE /\ composer' = "settled"
                 /\ UNCHANGED rq
  /\ UNCHANGED <<N8N_WEBHOOK_URL, N8N_API_KEY, form, outbound>>

\* the composer as it is mounted: the default form, nothing posted
LifecycleInit ==
  /\ \E env \in Environments :
       /\ N8N_WEBHOOK_URL = env.url
       /\ N8N_API_KEY = env.key
  /\ form = defaultValues
  /\ formState = FormIdle
  /\ composer = "ready"
  /\ rq = [r \in Reqs |-> NoRequest]
  /\ outbound = <<>>

LifecycleNext ==
  \/ \E e \in Edits : handleChange(e.field, e.value)
  \/ SubmitClick
  \/ \E r \in Reqs : POST(r)
  \/ \E r \in Reqs : FetchRejects(r)
  \/ \E r \in Reqs : FetchResolves(r)
  \/ SubmitResolves
  \/ SubmitRejects

\* the continuation of handleSubmit runs once the relay endpoint's response
\* has arrived
LifecycleSpec ==
  LifecycleInit /\ [][LifecycleNext]_vars /\ WF_vars(SubmitResolves)

(***************************************************************************)
(* Two requests at the relay endpoint at once: each await of POST lets the *)
(* other invocation run                                                    *)
(***************************************************************************)
\* the bodies of the two requests: Scenario A's, the same with blanks
\* around its workflowTag, and Scenario C's
PairBodies ==
  {ScenarioA, [ScenarioA EXCEPT !.workflowTag = Str(<<SPACE, "promo", NEWLINE>>)],
   ScenarioC}

PairInit ==
  /\ \E env \in Environments :
       /\ N8N_WEBHOOK_URL = env.url
       /\ N8N_API_KEY = env.key
  /\ form = NoForm
  /\ formState = FormIdle
  /\ composer = "off"
  /\ \E body1 \in PairBodies, body2 \in PairBodies,
        header1 \in OriginHeaders, header2 \in OriginHeaders :
       rq = [r \in Reqs |-> IF r = "r1"
                            THEN Request("received", TRUE, body1, header1)
                            ELSE Request("received", TRUE, body2, header2)]
  /\ outbound = <<>>

PairNext ==
  \/ \E r \in Reqs : POST(r)
  \/ \E r \in Reqs : FetchRejects(r)
  \/ \E r \in Reqs : FetchResolves(r)

PairSpec == PairInit /\ [][PairNext]_vars

(***************************************************************************)
(* The claims                                                              *)
(***************************************************************************)
\* the number of calls made to the downstream for request r
Calls(r) == Cardinality({i \in 1..Len(outbound) : outbound[i].req = r})

\* request r passes the configuration check, the body parse and the schema
PassesGates(r) ==
  N8N_WEBHOOK_URL # "" /\ rq[r].json /\ inboundSchema(rq[r].body).success

\* the composer has run handleSubmit and has posted a body to the endpoint
ComposerPosted == composer \in {"awaiting", "settled"} /\ rq["r1"].pc # "none"

\* C1: every form input that payloadSchema accepts yields a normalized
\* payload that inboundSchema accepts as well.
C1_RoundTrip ==
  ComposerPosted => inboundSchema(rq["r1"].body).success

\* C2: a request that passes the three gates causes exactly one call to the
\* downstream, a request that fails one of them causes none, and no request
\* ever causes more than one, whatever the downstream does.
C2_ExactlyOneCall ==
  \A r \in Reqs :
    /\ Calls(r) <= 1
    /\ rq[r].pc \in {"none", "received"} => Calls(r) = 0
    /\ rq[r].pc \in {"fetching", "responded"} =>
         Calls(r) = (IF PassesGates(r) THEN 1 ELSE 0)
    /\ rq[r].pc = "responded" /\ rq[r].res.status \in {500, 400, 422} => Calls(r) = 0
    /\ rq[r].pc = "responded" /\ rq[r].res.status \in {200, 502, 504} => Calls(r) = 1

\* a request whose call to the downstream threw has been answered, and the
\* call was made once
C2_Witness ==
  \E r \in Reqs :
    rq[r].pc = "responded" /\ rq[r].down.t = "throw" /\ Calls(r) = 1

MISSING_CONFIGURATION ==
  <<"N8N_WEBHOOK_URL is not configured. Set it in your Vercel project environment variables.">>

\* C3: the gates apply in the order configuration, body parse, schema: with
\* the URL unset the response is 500 naming the missing configuration for
\* every body; with the URL set and a body that is not JSON it is 400 with
\* the parse failure in issues; with both passed and the schema failing it
\* is 422.
C3_GateOrder ==
  \A r \in Reqs :
    rq[r].pc = "responded" =>
      /\ N8N_WEBHOOK_URL = "" =>
           rq[r].res = Response(500, MISSING_CONFIGURATION, NoIssues, NoJson)
      /\ N8N_WEBHOOK_URL # "" /\ ~rq[r].json =>
           /\ rq[r].res.status = 400
           /\ rq[r].res.issues = Issues(<<BODY_NOT_JSON.string>>)
      /\ N8N_WEBHOOK_URL # "" /\ rq[r].json /\ ~inboundSchema(rq[r].body).success =>
           rq[r].res.status = 422

\* a body that is not JSON, posted with the URL unset, was answered 500
C3_Witness ==
  \E r \in Reqs :
    /\ rq[r].pc = "responded" /\ N8N_WEBHOOK_URL = "" /\ ~rq[r].json
    /\ rq[r].res.status = 500

\* the rules of the schema a body violates, as messages in the order of the
\* schema's keys: one for a key of the wrong type, one for an empty tag or
\* message, one for an empty recipients array and one for each recipient
\* that is not 6 to 15 digits, one for a mediaUrl that is no URL, one for
\* workflowVars that is no object or one for each of its values that is no
\* string, one for a sendAt that is no date
WrongType(v, expected) ==
  IF v.k = "undefined" THEN "Required"
  ELSE IF expected = "string" THEN "Expected string, received number"
       ELSE IF expected = "array" THEN "Expected array, received string"
            ELSE CASE v.k = "array" -> "Expected object, received array"
                   [] v.k = "number" -> "Expected object, received number"
                   [] v.k = "string" -> "Expected object, received string"
                   [] v.k = "boolean" -> "Expected object, received boolean"
                   [] v.k = "null" -> "Expected object, received null"

RequiredTextViolations(v, msg) ==
  IF v.k # "string" THEN <<WrongType(v, "string")>>
  ELSE IF \A i \in 1..Len(v.s) : IsSpace(v.s[i]) THEN <<msg>> ELSE <<>>

RECURSIVE RecipientItemViolations(_)
RecipientItemViolations(items) ==
  IF items = <<>> THEN <<>>
  ELSE (IF Head(items).k # "string" THEN <<WrongType(Head(items), "string")>>
        ELSE IF MatchesRecipient(Trim(Head(items).s)) THEN <<>>
             ELSE <<"Recipients must be numeric in international format">>)
       \o RecipientItemViolations(Tail(items))

RecipientViolations(v) ==
  IF v.k # "array" THEN <<WrongType(v, "array")>>
  ELSE IF v.items = <<>> THEN <<"Provide at least one recipient">>
       ELSE RecipientItemViolations(v.items)

RECURSIVE VarsValueViolations(_)
VarsValueViolations(ents) ==
  IF ents = <<>> THEN <<>>
  ELSE (IF Head(ents).val.k = "string" THEN <<>>
        ELSE <<WrongType(Head(ents).val, "string")>>)
       \o VarsValueViolations(Tail(ents))

Violations(body) ==
  RequiredTextViolations(body.workflowTag, "workflowTag is required")
  \o RecipientViolations(body.recipients)
  \o RequiredTextViolations(body.message, "message is required")
  \o (IF body.mediaUrl.k = "undefined" THEN <<>>
      ELSE IF body.mediaUrl.k # "string" THEN <<WrongType(body.mediaUrl, "string")>>
           ELSE IF UrlParses(body.mediaUrl.s) THEN <<>> ELSE <<"Invalid url">>)
  \o (IF body.workflowVars.k = "undefined" THEN <<>>
      ELSE IF body.workflowVars.k # "object" THEN <<WrongType(body.workflowVars, "object")>>
           ELSE VarsValueViolations(body.workflowVars.ents))
  \o (IF body.sendAt.k = "undefined" THEN <<>>
      ELSE IF body.sendAt.k # "string" THEN <<WrongType(body.sendAt, "string")>>
           ELSE IF body.sendAt.s = <<>> \/ DateParses(body.sendAt.s) THEN <<>>
                ELSE <<"sendAt must be a valid ISO 8601 date string">>)

InList(m, list) == \E i \in 1..Len(list) : list[i] = m

\* C4: with the URL configured, a JSON object that violates the schema is
\* answered 422 with one message for every violated rule, in the order of
\* the schema's keys; a body with empty workflowTag, recipients and message
\* gets the messages of all three.
C4_AllIssuesCollected ==
  \A r \in Reqs :
    /\ rq[r].pc = "responded" /\ N8N_WEBHOOK_URL # "" /\ rq[r].json
    /\ rq[r].body.kind = "object" /\ Violations(rq[r].body) # <<>>
    => /\ rq[r].res.status = 422
       /\ rq[r].res.issues = Issues(Violations(rq[r].body))
       /\ ( /\ rq[r].body.workflowTag = Str(<<>>)
            /\ rq[r].body.recipients = Arr(<<>>)
            /\ rq[r].body.message = Str(<<>>)
            => /\ InList("workflowTag is required", rq[r].res.issues.list)
               /\ InList("Provide at least one recipient", rq[r].res.issues.list)
               /\ InList("message is required", rq[r].res.issues.list) )

\* Scenario C was answered 422 with its three issues
C4_Witness ==
  \E r \in Reqs :
    /\ rq[r].pc = "responded" /\ rq[r].body = ScenarioC
    /\ rq[r].res.status = 422 /\ Len(rq[r].res.issues.list) = 3

\* C5: a valid request the downstream answers with a non-success status is
\* answered 502, the message giving the downstream's status and issues
\* holding the downstream's raw body alone, or absent when it is empty.
C5_GatewayError ==
  \A r \in Reqs :
    rq[r].pc = "responded" /\ rq[r].down.t = "response" /\ ~IsOk(rq[r].down.status)
    => /\ rq[r].res.status = 502
       /\ rq[r].res.message = <<"n8n responded with status ", ToString(rq[r].down.status)>>
       /\ rq[r].res.issues =
            (IF rq[r].down.text = "" THEN NoIssues ELSE Issues(<<rq[r].down.text>>))

\* C6: a valid request whose call to the downstream throws is answered 504
\* with the error's message in issues; 504 is the answer in that case only,
\* never for a downstream that answered, whatever its status.
C6_UpstreamUnavailable ==
  \A r \in Reqs :
    rq[r].pc = "responded" =>
      /\ rq[r].down.t = "throw" =>
           /\ rq[r].res.status = 504
           /\ rq[r].res.issues = Issues(<<ErrorText(rq[r].down.error)>>)
      /\ rq[r].res.status = 504 => rq[r].down.t = "throw"
      /\ rq[r].down.t = "response" => rq[r].res.status # 504

\* C7: a valid request the downstream answers with a success status is
\* answered 200 with the confirmation message; n8nResponse is the
\* downstream's body when it parses as JSON and is absent when it does not.
C7_Success ==
  \A r \in Reqs :
    rq[r].pc = "responded" /\ rq[r].down.t = "response" /\ IsOk(rq[r].down.status)
    => /\ rq[r].res.status = 200
       /\ rq[r].res.message = <<"Workflow dispatched to n8n.">>
       /\ rq[r].res.issues = NoIssues
       /\ rq[r].down.readable /\ ParsesAsJson(rq[r].down.text)
            => rq[r].res.n8nResponse = Json(rq[r].down.text)
       /\ ~(rq[r].down.readable /\ ParsesAsJson(rq[r].down.text))
            => rq[r].res.n8nResponse = NoJson

\* a success whose body is no JSON was answered 200 without n8nResponse
C7_Witness ==
  \E r \in Reqs :
    /\ rq[r].pc = "responded" /\ rq[r].down.t = "response" /\ rq[r].down.status = 200
    /\ rq[r].down.text = "boom" /\ rq[r].res.status = 200
    /\ ~rq[r].res.n8nResponse.present

\* the body of the one call made for request r
Forwarded(r) == outbound[CHOOSE i \in 1..Len(outbound) : outbound[i].req = r].body

\* C8: in the payload forwarded downstream requestedAt is the instant the
\* server processed the request and origin is the origin header or absent;
\* a request that differs only in the requestedAt and origin of its body
\* forwards the same payload.
C8_ServerOwned ==
  \A r \in Reqs :
    Calls(r) = 1 =>
      /\ Forwarded(r) = rq[r].payload
      /\ Forwarded(r).requestedAt = rq[r].now
      /\ rq[r].now \in {toISOString(i) : i \in Instants}
      /\ Forwarded(r).origin = rq[r].originHeader
      /\ \A reqAt \in RequestedAtValues, org \in OriginValues, instant \in Instants :
           LET other == inboundSchema([rq[r].body EXCEPT !.requestedAt = reqAt,
                                                         !.origin = org])
           IN  toISOString(instant) = rq[r].now =>
                 /\ other.success
                 /\ Enrich(other.data, rq[r].originHeader, instant) = Forwarded(r)

\* a body that names a requestedAt and an origin of its own was forwarded,
\* by a request without an origin header, with neither
C8_Witness ==
  \E r \in Reqs :
    /\ Calls(r) = 1
    /\ rq[r].body.requestedAt.k = "string" /\ rq[r].body.requestedAt # rq[r].now
    /\ rq[r].body.origin.k = "string" /\ rq[r].originHeader = Undef
    /\ Forwarded(r).origin = Undef

MentionsRecipients(m) ==
  m \in {"Recipients must be numeric in international format",
         "Provide at least one recipient", "At least one recipient is required"}

\* the recipients a text of the form normalizes to
NormalizedRecipients(text) == FilterBoolean(MapTrim(Split(Trim(text))))

\* C9: a request with zero recipients after normalization, or with a
\* recipient that is not 6 to 15 digits after trimming, fails validation
\* with an issue that mentions recipients, at the server-facing validator
\* and at the client-facing one.
C9_BadRecipientsRejected ==
  /\ \A r \in Reqs :
       /\ rq[r].pc = "responded" /\ composer = "off"
       /\ N8N_WEBHOOK_URL # "" /\ rq[r].json /\ rq[r].body.kind = "object"
       /\ rq[r].body.recipients.k = "array"
       /\ \A i \in 1..Len(rq[r].body.recipients.items) :
            rq[r].body.recipients.items[i].k = "string"
       /\ \/ rq[r].body.recipients.items = <<>>
          \/ \E i \in 1..Len(rq[r].body.recipients.items) :
               ~MatchesRecipient(Trim(rq[r].body.recipients.items[i].s))
       => /\ rq[r].res.status = 422
          /\ \E i \in 1..Len(rq[r].res.issues.list) :
               MentionsRecipients(rq[r].res.issues.list[i])
  /\ /\ composer \in {"awaiting", "settled"}
     /\ tryParseWorkflowVars(form.workflowVars).status = "ok"
     /\ LET entries == NormalizedRecipients(form.recipients)
        IN  entries = <<>> \/ \E i \in 1..Len(entries) : ~MatchesRecipient(entries[i])
     => /\ rq["r1"].pc = "none"
        /\ formState.status = "error"
        /\ \E i \in 1..Len(formState.issues.list) :
             MentionsRecipients(formState.issues.list[i])

\* workflowVars as the claim takes them: a JSON array or a JSON primitive
ArrayOrPrimitive(v) == v.k \in {"array", "number", "string", "boolean", "null"}

MUST_BE_OBJECT == "Workflow variables must be a JSON object."

\* the composer's part of C10: a workflowVars text that parses as an array
\* or a primitive ends the submission with the message and without a post
C10_Composer ==
  /\ composer \in {"awaiting", "settled"}
  /\ Trim(form.workflowVars) # <<>>
  /\ JsonParse(form.workflowVars).ok
  /\ ArrayOrPrimitive(JsonParse(form.workflowVars).v)
  => /\ composer = "settled"
     /\ formState = FormError(<<MUST_BE_OBJECT>>, NoIssues)
     /\ rq["r1"].pc = "none"
     /\ outbound = <<>>

\* C10 as stated: workflowVars that are an array or a primitive fail with a
\* "must be a JSON object" issue and nothing is relayed, at the composer
\* and, with a 422, at the relay endpoint.
C10_Original ==
  /\ C10_Composer
  /\ \A r \in Reqs :
       /\ rq[r].pc = "responded" /\ N8N_WEBHOOK_URL # "" /\ rq[r].json
       /\ rq[r].body.kind = "object" /\ ArrayOrPrimitive(rq[r].body.workflowVars)
       => /\ rq[r].res.status = 422
          /\ InList(MUST_BE_OBJECT, rq[r].res.issues.list)
          /\ Calls(r) = 0

\* C10, amended: at the composer as stated; at the relay endpoint nothing
\* is relayed either, and with the URL configured the answer is 422 with
\* the validator's own type message for workflowVars, which is not the
\* composer's "must be a JSON object".
C10_ObjectRequired ==
  /\ C10_Composer
  /\ \A r \in Reqs :
       /\ rq[r].pc # "none" /\ rq[r].json
       /\ rq[r].body.kind = "object" /\ ArrayOrPrimitive(rq[r].body.workflowVars)
       => /\ rq[r].pc \in {"received", "responded"}
          /\ Calls(r) = 0
          /\ rq[r].pc = "responded" /\ N8N_WEBHOOK_URL # "" =>
               /\ rq[r].res.status = 422
               /\ InList(WrongType(rq[r].body.workflowVars, "object"), rq[r].res.issues.list)
               /\ ~InList(MUST_BE_OBJECT, rq[r].res.issues.list)
          /\ rq[r].pc = "responded" /\ N8N_WEBHOOK_URL = "" => rq[r].res.status = 500

\* a body whose workflowVars is an array was answered 422
C10_Witness ==
  \E r \in Reqs :
    /\ rq[r].pc = "responded" /\ rq[r].body.workflowVars.k = "array"
    /\ rq[r].res.status = 422 /\ Calls(r) = 0

\* a string value carries no blank at either end
IsTrimmed(v) == v.k = "string" => Trim(v.s) = v.s

\* workflowTag, message and every recipient of a payload are trimmed
RequiredTrimmed(data) ==
  /\ IsTrimmed(data.workflowTag)
  /\ IsTrimmed(data.message)
  /\ \A i \in 1..Len(data.recipients.items) : IsTrimmed(data.recipients.items[i])

\* so are mediaUrl, sendAt and every value of workflowVars
OptionalTrimmed(data) ==
  /\ IsTrimmed(data.mediaUrl)
  /\ IsTrimmed(data.sendAt)
  /\ \A i \in 1..Len(data.workflowVars.ents) : IsTrimmed(data.workflowVars.ents[i].val)

\* a body whose workflowTag and message are strings that are not empty
\* after trimming and whose recipients are one or more strings of 6 to 15
\* digits after trimming
RequiredFieldsGood(body) ==
  /\ body.kind = "object"
  /\ body.workflowTag.k = "string" /\ Trim(body.workflowTag.s) # <<>>
  /\ body.message.k = "string" /\ Trim(body.message.s) # <<>>
  /\ body.recipients.k = "array" /\ body.recipients.items # <<>>
  /\ \A i \in 1..Len(body.recipients.items) :
       /\ body.recipients.items[i].k = "string"
       /\ MatchesRecipient(Trim(body.recipients.items[i].s))

\* the same of a form
RequiredTextsGood(f) ==
  /\ Trim(f.workflowTag) # <<>>
  /\ Trim(f.message) # <<>>
  /\ NormalizedRecipients(f.recipients) # <<>>
  /\ \A i \in 1..Len(NormalizedRecipients(f.recipients)) :
       MatchesRecipient(NormalizedRecipients(f.recipients)[i])

\* mediaUrl, workflowVars and sendAt of a body are absent or what the
\* relay endpoint's validator takes
OptionalFieldsGood(body) ==
  /\ body.mediaUrl.k = "undefined" \/ (body.mediaUrl.k = "string" /\ UrlParses(body.mediaUrl.s))
  /\ \/ body.workflowVars.k = "undefined"
     \/ /\ body.workflowVars.k = "object"
        /\ \A i \in 1..Len(body.workflowVars.ents) : body.workflowVars.ents[i].val.k = "string"
  /\ \/ body.sendAt.k = "undefined"
     \/ body.sendAt.k = "string" /\ (body.sendAt.s = <<>> \/ DateParses(body.sendAt.s))

\* the same of a form, at the composer's validator
OptionalTextsGood(f) ==
  /\ f.mediaUrl = <<>> \/ UrlParses(f.mediaUrl)
  /\ tryParseWorkflowVars(f.workflowVars).status = "ok"
  /\ f.sendAt = <<>> \/ DateParses(f.sendAt)

\* request r has been validated by the relay endpoint
Validated(r) ==
  rq[r].pc \in {"fetching", "responded"} /\ N8N_WEBHOOK_URL # "" /\ rq[r].json

\* C11 as stated: whenever every recipient is 6 to 15 digits and
\* workflowTag and message are not empty after trimming, validation
\* succeeds and every string field of the normalized payload is trimmed,
\* at the relay endpoint and at the composer.
C11_Original ==
  /\ \A r \in Reqs :
       Validated(r) /\ composer = "off" /\ RequiredFieldsGood(rq[r].body)
       => /\ Calls(r) = 1
          /\ RequiredTrimmed(rq[r].payload) /\ OptionalTrimmed(rq[r].payload)
  /\ composer \in {"awaiting", "settled"} /\ RequiredTextsGood(form)
     => /\ rq["r1"].pc # "none"
        /\ RequiredTrimmed(rq["r1"].body) /\ OptionalTrimmed(rq["r1"].body)

\* C11, amended: whenever in addition mediaUrl, workflowVars and sendAt are
\* absent or valid, validation succeeds and workflowTag, message and every
\* recipient of the normalized payload are trimmed; mediaUrl, sendAt and
\* the values of workflowVars are kept as they were given.
C11_RequiredFieldsTrimmed ==
  /\ \A r \in Reqs :
       /\ Validated(r) /\ composer = "off"
       /\ RequiredFieldsGood(rq[r].body) /\ OptionalFieldsGood(rq[r].body)
       => /\ Calls(r) = 1
          /\ RequiredTrimmed(rq[r].payload)
          /\ rq[r].payload.workflowTag.s = Trim(rq[r].body.workflowTag.s)
          /\ rq[r].payload.mediaUrl = rq[r].body.mediaUrl
          /\ rq[r].payload.sendAt = rq[r].body.sendAt
          /\ rq[r].payload.workflowVars = rq[r].body.workflowVars
  /\ /\ composer \in {"awaiting", "settled"}
     /\ RequiredTextsGood(form) /\ OptionalTextsGood(form)
     => /\ rq["r1"].pc # "none"
        /\ RequiredTrimmed(rq["r1"].body)
        /\ rq["r1"].body.workflowTag.s = Trim(form.workflowTag)
        /\ rq["r1"].body.mediaUrl = Str(form.mediaUrl)
        /\ rq["r1"].body.workflowVars = tryParseWorkflowVars(form.workflowVars).value
        /\ rq["r1"].body.sendAt = normalizeDateField(form.sendAt)

\* a workflowTag and a recipient given with blanks around them were
\* forwarded without
C11_Witness ==
  \E r \in Reqs :
    /\ Calls(r) = 1
    /\ rq[r].body.workflowTag.s # Trim(rq[r].body.workflowTag.s)
    /\ \E i \in 1..Len(rq[r].body.recipients.items) :
         /\ rq[r].body.recipients.items[i].s # Trim(rq[r].body.recipients.items[i].s)
         /\ Forwarded(r).recipients.items[i].s = Trim(rq[r].body.recipients.items[i].s)
    /\ Forwarded(r).workflowTag.s = Trim(rq[r].body.workflowTag.s)

\* the FormState shows an outcome
ShowsOutcome(state) == state.status \in {"success", "error"}

RelayCalls == Cardinality({r \in Reqs : rq[r].pc # "none"})

\* C13: the composer shows success only for a response of the relay
\* endpoint with an ok status; a submission ends either with the response,
\* in success if its status is ok and otherwise in error with the
\* endpoint's message and issue list, or with what fetch threw, in error
\* with the caught message; and the relay endpoint is called only by a
\* submit, once.
C13_SuccessOnlyOnOk ==
  /\ [](formState.status = "success"
        => rq[Current].pc = "responded" /\ IsOk(rq[Current].res.status))
  /\ [][(isPending /\ composer' = "settled")
          => \/ /\ rq[Current].pc = "responded" /\ IsOk(rq[Current].res.status)
                /\ formState'.status = "success"
             \/ /\ rq[Current].pc = "responded" /\ ~IsOk(rq[Current].res.status)
                /\ formState'.status = "error"
                /\ formState'.message = rq[Current].res.message
                /\ formState'.issues.list = rq[Current].res.issues.list
             \/ \E error \in ComposerErrors :
                  /\ formState'.status = "error"
                  /\ formState'.message = <<error.message>>]_vars
  /\ [][RelayCalls' # RelayCalls
          => /\ RelayCalls' = RelayCalls + 1
             /\ ~isPending /\ composer' = "awaiting"]_vars

\* a second submission was answered 502 by the relay endpoint and shows
\* the endpoint's message and issues
C13_Witness ==
  /\ composer = "settled" /\ RelayCalls = 2
  /\ rq["r2"].pc = "responded" /\ rq["r2"].res.status = 502
  /\ formState = FormError(rq["r2"].res.message, rq["r2"].res.issues)
  /\ formState.issues.list # <<>>

\* the response POST gives request r by r's own body, headers and
\* downstream answer, and the configuration
OwnOutcome(r) ==
  LET gate == Gates(N8N_WEBHOOK_URL, rq[r].json, inboundSchema(rq[r].body))
  IN  IF gate # NoResponse THEN gate
      ELSE IF rq[r].down.t = "throw" THEN Caught(rq[r].down.error)
           ELSE Outcome(rq[r].down)

\* C14: of two requests handled one after the other or interleaved, each
\* that passes the gates makes its own call downstream, whatever the other
\* one carries (two calls for two identical valid bodies); what is forwarded
\* for a request and the response it gets are given by its own body,
\* headers and downstream answer; a step of one request leaves the other
\* request as it is, and no step writes the configuration.
C14_Independent ==
  /\ [](\A r \in Reqs :
         /\ rq[r].pc \in {"fetching", "responded"}
            => Calls(r) = IF PassesGates(r) THEN 1 ELSE 0
         /\ Calls(r) = 1
            => \E instant \in Instants :
                 /\ rq[r].now = toISOString(instant)
                 /\ Forwarded(r) = Enrich(inboundSchema(rq[r].body).data,
                                          rq[r].originHeader, instant)
         /\ rq[r].pc = "responded" => rq[r].res = OwnOutcome(r))
  /\ []((/\ rq["r1"].body = rq["r2"].body
         /\ PassesGates("r1") /\ PassesGates("r2")
         /\ \A r \in Reqs : rq[r].pc \in {"fetching", "responded"})
        => Len(outbound) = 2 /\ Calls("r1") = 1 /\ Calls("r2") = 1)
  /\ [][/\ \A r \in Reqs : rq'[r] # rq[r] => \A o \in Reqs \ {r} : rq'[o] = rq[o]
        /\ N8N_WEBHOOK_URL' = N8N_WEBHOOK_URL
        /\ N8N_API_KEY' = N8N_API_KEY]_vars

\* two requests with the same valid body were each forwarded, and were
\* answered differently as their downstream answers differed
C14_Witness ==
  /\ rq["r1"].body = rq["r2"].body /\ rq["r1"].originHeader = rq["r2"].originHeader
  /\ rq["r1"].pc = "responded" /\ rq["r2"].pc = "responded"
  /\ Len(outbound) = 2 /\ outbound[1].req = "r2" /\ outbound[2].req = "r1"
  /\ rq["r1"].res.status = 200 /\ rq["r2"].res.status = 504

====
